---- MODULE Spec2Model ----
(***************************************************************************)
(* RISC-V RV32I instruction decoder (orbit).                               *)
(*                                                                         *)
(* RiscVDecoderService.decode(hex) and the HTTP handler                    *)
(* DecodeController.decode(hex) that wraps it.                              *)
(*                                                                         *)
(* Representation.  A JavaScript string that the code slices or tests      *)
(* character by character (the input, cleanHex, binary, the field values)  *)
(* is a sequence of one-character strings.  A string that the code only    *)
(* builds and compares (mnemonics, operands, messages, table keys) is a    *)
(* TLC string; Str turns the first kind into the second.  TLC integers are *)
(* 32-bit signed, so the one JavaScript Number that can exceed 2^31 - 1,   *)
(* the value parseInt(cleanHex, 16), is held as two 16-bit limbs.          *)
(***************************************************************************)
EXTENDS Integers, Sequences, FiniteSets, TLC

VARIABLES
  hex,        \* the argument: [present : BOOLEAN, chars : Seq(Char)]
  pc,         \* "call" (argument chosen), "decoded" (service returned), "responded" (HTTP handler returned)
  result,     \* outcome of RiscVDecoderService.decode, or NoResult
  response,   \* outcome of DecodeController.decode, or NoResponse
  calls,      \* concurrent calls of decode: call |-> [hex, pc, result]
  frames,     \* the local constants of each call of decode
  service,    \* the fields of the one RiscVDecoderService instance
  ui,         \* the React state of RiscVDecoder: [hex, decoded, loading, error]
  action      \* the running decode action of the frontend: [pc, hex, cleanHex, res, thrown]

vars == <<hex, pc, result, response, calls, frames, service, ui, action>>

(***************************************************************************)
(* Characters and JavaScript string primitives                             *)
(***************************************************************************)
LowerLetters == <<"a","b","c","d","e","f","g","h","i","j","k","l","m",
                  "n","o","p","q","r","s","t","u","v","w","x","y","z">>
UpperLetters == <<"A","B","C","D","E","F","G","H","I","J","K","L","M",
                  "N","O","P","Q","R","S","T","U","V","W","X","Y","Z">>
HexDigitChars == <<"0","1","2","3","4","5","6","7","8","9","A","B","C","D","E","F">>

\* /\s/ : the whitespace characters a request can carry
WhitespaceChars == {" ", "\t", "\n"}

RECURSIVE Str(_)
\* the string whose characters are s
Str(s) == IF s = <<>> THEN "" ELSE Head(s) \o Str(Tail(s))

Min(a, b) == IF a < b THEN a ELSE b
Max(a, b) == IF a > b THEN a ELSE b

\* String.prototype.slice(start, end): negative indices count from the end
SliceIndex(len, i) == IF i < 0 THEN Max(len + i, 0) ELSE Min(i, len)
Slice(s, start, end) == SubSeq(s, SliceIndex(Len(s), start) + 1, SliceIndex(Len(s), end))
\* (variant: a negative start is taken as 0)
SliceFromClamped(s, start) == SubSeq(s, Max(start, 0) + 1, Len(s))
SliceFrom(s, start) == Slice(s, start, Len(s))

IndexOf(seq, c) == CHOOSE i \in 1..Len(seq) : seq[i] = c
InSeq(seq, c) == \E i \in 1..Len(seq) : seq[i] = c

\* String.prototype.toUpperCase, one character
ToUpperCaseChar(c) == IF InSeq(LowerLetters, c) THEN UpperLetters[IndexOf(LowerLetters, c)] ELSE c
ToUpperCase(s) == [i \in 1..Len(s) |-> ToUpperCaseChar(s[i])]

\* hex.replace(/\s/g, '')
IsNotWhitespace(c) == c \notin WhitespaceChars
StripWhitespace(s) == SelectSeq(s, IsNotWhitespace)

\* hex.replace(/\s/g, '').toUpperCase()
\* (variant: the toUpperCase() call is left out)
CleanHexNoUpper(s) == StripWhitespace(s)
CleanHex(s) == ToUpperCase(StripWhitespace(s))

\* /^[0-9A-F]{8}$/.test(cleanHex)
HexPattern(s) == Len(s) = 8 /\ \A i \in 1..Len(s) : InSeq(HexDigitChars, s[i])

(***************************************************************************)
(* hexToBinary: parseInt(hex, 16).toString(2).padStart(32, '0')            *)
(***************************************************************************)
\* the limb base of the two-limb Number
Limb == 2^16

RECURSIVE ParseIntLimbs(_, _, _)
\* parseInt(s, radix) for radix 2 or 16, as [hi, lo] with value hi * 2^16 + lo
ParseIntLimbs(s, radix, acc) ==
  IF s = <<>> THEN acc
  ELSE LET d  == IndexOf(HexDigitChars, Head(s)) - 1
           lo == acc.lo * radix + d
       IN  ParseIntLimbs(Tail(s), radix, [hi |-> acc.hi * radix + (lo \div Limb), lo |-> lo % Limb])

ParseIntHex(s) == ParseIntLimbs(s, 16, [hi |-> 0, lo |-> 0])

RECURSIVE ToString2(_)
\* Number.prototype.toString(2) of a non-negative integer below 2^31
ToString2(n) == IF n < 2 THEN <<HexDigitChars[n + 1]>> ELSE ToString2(n \div 2) \o <<HexDigitChars[(n % 2) + 1]>>

RECURSIVE Repeat(_, _)
Repeat(c, n) == IF n <= 0 THEN <<>> ELSE <<c>> \o Repeat(c, n - 1)

\* String.prototype.padStart(width, c)
PadStart(s, width, c) == Repeat(c, width - Len(s)) \o s

\* toString(2) of the two-limb Number
LimbsToString2(v) ==
  IF v.hi = 0 THEN ToString2(v.lo) ELSE ToString2(v.hi) \o PadStart(ToString2(v.lo), 16, "0")

\* String.prototype.padEnd(width, c)
PadEnd(s, width, c) == s \o Repeat(c, width - Len(s))

\* (variant: padEnd in place of padStart)
hexToBinaryPadEnd(h) == PadEnd(LimbsToString2(ParseIntHex(h)), 32, "0")
hexToBinary(h) == PadStart(LimbsToString2(ParseIntHex(h)), 32, "0")

(***************************************************************************)
(* The tables of RiscVDecoderService                                       *)
(***************************************************************************)
\* bitRanges of each format, in insertion order: <<field name, low bit, high bit>>
instructionFormats ==
  [ R |-> << <<"funct7", 25, 31>>, <<"rs2", 20, 24>>, <<"rs1", 15, 19>>,
             <<"funct3", 12, 14>>, <<"rd", 7, 11>>, <<"opcode", 0, 6>> >>,
    I |-> << <<"imm[11:0]", 20, 31>>, <<"rs1", 15, 19>>,
             <<"funct3", 12, 14>>, <<"rd", 7, 11>>, <<"opcode", 0, 6>> >>,
    S |-> << <<"imm[11:5]", 25, 31>>, <<"rs2", 20, 24>>, <<"rs1", 15, 19>>,
             <<"funct3", 12, 14>>, <<"imm[4:0]", 7, 11>>, <<"opcode", 0, 6>> >>,
    B |-> << <<"imm[12|10:5]", 25, 31>>, <<"rs2", 20, 24>>, <<"rs1", 15, 19>>,
             <<"funct3", 12, 14>>, <<"imm[4:1|11]", 7, 11>>, <<"opcode", 0, 6>> >>,
    U |-> << <<"imm[31:12]", 12, 31>>, <<"rd", 7, 11>>, <<"opcode", 0, 6>> >>,
    J |-> << <<"imm[20|10:1|11|19:12]", 12, 31>>, <<"rd", 7, 11>>, <<"opcode", 0, 6>> >> ]

\* the fields array of each format
instructionFormatFields ==
  [ R |-> <<"funct7", "rs2", "rs1", "funct3", "rd", "opcode">>,
    I |-> <<"imm[11:0]", "rs1", "funct3", "rd", "opcode">>,
    S |-> <<"imm[11:5]", "rs2", "rs1", "funct3", "imm[4:0]", "opcode">>,
    B |-> <<"imm[12|10:5]", "rs2", "rs1", "funct3", "imm[4:1|11]", "opcode">>,
    U |-> <<"imm[31:12]", "rd", "opcode">>,
    J |-> <<"imm[20|10:1|11|19:12]", "rd", "opcode">> ]

OpcodeInfo(op, type, mn) == [opcode |-> op, instructionType |-> type, mnemonic |-> mn]

\* (variant: jalr filed under the J format)
opcodeMapJalrAsJ ==
  [ o \in {"0110011", "0010011", "0000011", "0100011", "1100011", "0110111",
           "0010111", "1101111", "1100111", "0001111", "1110011"} |->
      CASE o = "0110011" -> OpcodeInfo(o, "R", "R-type")
        [] o = "0010011" -> OpcodeInfo(o, "I", "I-type")
        [] o = "0000011" -> OpcodeInfo(o, "I", "I-type")
        [] o = "0100011" -> OpcodeInfo(o, "S", "S-type")
        [] o = "1100011" -> OpcodeInfo(o, "B", "B-type")
        [] o = "0110111" -> OpcodeInfo(o, "U", "lui")
        [] o = "0010111" -> OpcodeInfo(o, "U", "auipc")
        [] o = "1101111" -> OpcodeInfo(o, "J", "jal")
        [] o = "1100111" -> OpcodeInfo(o, "J", "jalr")
        [] o = "0001111" -> OpcodeInfo(o, "I", "fence")
        [] o = "1110011" -> OpcodeInfo(o, "I", "I-type") ]

opcodeMap ==
  [ o \in {"0110011", "0010011", "0000011", "0100011", "1100011", "0110111",
           "0010111", "1101111", "1100111", "0001111", "1110011"} |->
      CASE o = "0110011" -> OpcodeInfo(o, "R", "R-type")
        [] o = "0010011" -> OpcodeInfo(o, "I", "I-type")
        [] o = "0000011" -> OpcodeInfo(o, "I", "I-type")
        [] o = "0100011" -> OpcodeInfo(o, "S", "S-type")
        [] o = "1100011" -> OpcodeInfo(o, "B", "B-type")
        [] o = "0110111" -> OpcodeInfo(o, "U", "lui")
        [] o = "0010111" -> OpcodeInfo(o, "U", "auipc")
        [] o = "1101111" -> OpcodeInfo(o, "J", "jal")
        [] o = "1100111" -> OpcodeInfo(o, "I", "jalr")
        [] o = "0001111" -> OpcodeInfo(o, "I", "fence")
        [] o = "1110011" -> OpcodeInfo(o, "I", "I-type") ]

\* a JavaScript object used as a lookup table: a function on its keys
Table(keys, vals) == [k \in {keys[i] : i \in 1..Len(keys)} |-> vals[IndexOf(keys, k)]]

\* (variant: the sra entry is missing)
rTypeInstructionsNoSra ==
  Table(<<"0000000", "0100000">>,
        << Table(<<"000", "001", "010", "011", "100", "101", "110", "111">>,
                 <<"add", "sll", "slt", "sltu", "xor", "srl", "or", "and">>),
           Table(<<"000">>, <<"sub">>) >>)

rTypeInstructions ==
  Table(<<"0000000", "0100000">>,
        << Table(<<"000", "001", "010", "011", "100", "101", "110", "111">>,
                 <<"add", "sll", "slt", "sltu", "xor", "srl", "or", "and">>),
           Table(<<"000", "101">>, <<"sub", "sra">>) >>)

iTypeInstructions ==
  Table(<<"000", "001", "010", "011", "100", "101", "110", "111">>,
        <<"addi", "slli", "slti", "sltiu", "xori", "srli", "ori", "andi">>)

\* (variant: the srai entry is missing)
iTypeShiftInstructionsNoSrai ==
  Table(<<"0000000">>, << Table(<<"101">>, <<"srli">>) >>)

iTypeShiftInstructions ==
  Table(<<"0000000", "0100000">>,
        << Table(<<"101">>, <<"srli">>), Table(<<"101">>, <<"srai">>) >>)

loadInstructions == Table(<<"000", "001", "010", "100", "101">>, <<"lb", "lh", "lw", "lbu", "lhu">>)

storeInstructions == Table(<<"000", "001", "010">>, <<"sb", "sh", "sw">>)

\* (variant: the funct3 keys numbered consecutively)
branchInstructionsDense ==
  Table(<<"000", "001", "010", "011", "100", "101">>,
        <<"beq", "bne", "blt", "bge", "bltu", "bgeu">>)

branchInstructions ==
  Table(<<"000", "001", "100", "101", "110", "111">>,
        <<"beq", "bne", "blt", "bge", "bltu", "bgeu">>)

\* (variant: the immediate forms keyed one funct3 too low)
csrInstructionsShifted ==
  Table(<<"001", "010", "011", "100", "101", "110">>,
        <<"csrrw", "csrrs", "csrrc", "csrrwi", "csrrsi", "csrrci">>)

csrInstructions ==
  Table(<<"001", "010", "011", "101", "110", "111">>,
        <<"csrrw", "csrrs", "csrrc", "csrrwi", "csrrsi", "csrrci">>)

\* (variant: table[key] without the || fallback, "" standing for undefined)
LookupNoFallback(table, key, fallback) == IF key \in DOMAIN table THEN table[key] ELSE ""
\* table[key] || fallback   (every table value is a non-empty string, hence truthy)
Lookup(table, key, fallback) == IF key \in DOMAIN table THEN table[key] ELSE fallback
\* table[k1]?.[k2], with "" standing for undefined
Lookup2(table, k1, k2) == IF k1 \in DOMAIN table THEN Lookup(table[k1], k2, "") ELSE ""

(***************************************************************************)
(* extractFields                                                           *)
(***************************************************************************)
\* (variant: binary.slice(startBit, endBit), the + 1 left out)
extractFieldsOffByOne(binary, format) ==
  [i \in 1..Len(format) |->
     [name |-> format[i][1], value |-> Slice(binary, 31 - format[i][3], 31 - format[i][2])]]
\* the fields object, in insertion order: a sequence of [name, value]
extractFields(binary, format) ==
  [i \in 1..Len(format) |->
     LET startBit == 31 - format[i][3]
         endBit   == 31 - format[i][2]
     IN  [name |-> format[i][1], value |-> Slice(binary, startBit, endBit + 1)]]

HasField(fields, name) == \E i \in 1..Len(fields) : fields[i].name = name
\* fields[name]
Field(fields, name) == fields[CHOOSE i \in 1..Len(fields) : fields[i].name = name].value
\* fields[name] || ''
FieldOrEmpty(fields, name) == IF HasField(fields, name) THEN Field(fields, name) ELSE <<>>

(***************************************************************************)
(* Numbers and their renderings                                            *)
(***************************************************************************)
RECURSIVE ParseInt2Acc(_, _)
ParseInt2Acc(s, acc) ==
  IF s = <<>> THEN acc ELSE ParseInt2Acc(Tail(s), acc * 2 + (IF Head(s) = "1" THEN 1 ELSE 0))
\* parseInt(s, 2) of a bit string of at most 21 bits
ParseInt2(s) == ParseInt2Acc(s, 0)

RECURSIVE ToString16Lower(_)
\* (variant: the toUpperCase() call is left out)
ToString16Lower(n) ==
  LET digits == <<"0","1","2","3","4","5","6","7","8","9","a","b","c","d","e","f">>
  IN  IF n < 16 THEN <<digits[n + 1]>>
      ELSE ToString16Lower(n \div 16) \o <<digits[(n % 16) + 1]>>

RECURSIVE ToString16Upper(_)
\* n.toString(16).toUpperCase()
ToString16Upper(n) ==
  IF n < 16 THEN <<HexDigitChars[n + 1]>>
  ELSE ToString16Upper(n \div 16) \o <<HexDigitChars[(n % 16) + 1]>>

\* (variant: the || b alternative is left out)
OrElseFirstOnly(a, b) == a
\* a || b on strings: the empty string is falsy
OrElse(a, b) == IF a # "" THEN a ELSE b

\* (variant: the sign bit is always taken at 12 bits)
signExtendTwelve(binary, bits) ==
  LET value == ParseInt2(binary)
  IN  IF (value \div 2^11) % 2 = 1 THEN value - 2^12 ELSE value
\* (variant: the value is returned unsigned)
signExtendUnsigned(binary, bits) == ParseInt2(binary)
\* signExtend(binary, bits): (value & (1 << (bits - 1))) ? value - (1 << bits) : value
signExtend(binary, bits) ==
  LET value   == ParseInt2(binary)
      signBit == 2^(bits - 1)
  IN  IF (value \div signBit) % 2 = 1 THEN value - 2^bits ELSE value

(***************************************************************************)
(* getMnemonic                                                             *)
(***************************************************************************)
getMnemonic(opcodeInfo, fields) ==
  LET type   == opcodeInfo.instructionType
      funct3 == Str(FieldOrEmpty(fields, "funct3"))
  IN
  CASE type = "R" ->
         OrElse(Lookup2(rTypeInstructions, Str(FieldOrEmpty(fields, "funct7")), funct3), "unknown")
    [] type = "I" ->
         IF opcodeInfo.opcode = "0000011" THEN Lookup(loadInstructions, funct3, "unknown")
         ELSE IF opcodeInfo.opcode = "1110011" THEN
           IF funct3 = "000" THEN
             LET imm == Str(FieldOrEmpty(fields, "imm[11:0]"))
             IN  IF imm = "000000000000" THEN "ecall"
                 ELSE IF imm = "000000000001" THEN "ebreak"
                 ELSE "unknown"
           ELSE Lookup(csrInstructions, funct3, "unknown")
         ELSE IF opcodeInfo.opcode = "1100111" THEN "jalr"
         ELSE IF opcodeInfo.opcode = "0001111" THEN (IF funct3 = "001" THEN "fence.i" ELSE "fence")
         ELSE IF funct3 = "001" \/ funct3 = "101" THEN
           LET iFunct7 == Str(Slice(FieldOrEmpty(fields, "imm[11:0]"), 0, 7))
           IN  OrElse(Lookup2(iTypeShiftInstructions, iFunct7, funct3),
                      Lookup(iTypeInstructions, funct3, "unknown"))
         ELSE Lookup(iTypeInstructions, funct3, "unknown")
    [] type = "S" -> Lookup(storeInstructions, funct3, "unknown")
    [] type = "B" -> Lookup(branchInstructions, funct3, "unknown")
    [] type \in {"U", "J"} -> opcodeInfo.mnemonic
    [] OTHER -> "unknown"

(***************************************************************************)
(* getRegisterName                                                         *)
(***************************************************************************)
abiNames ==
  [n \in (0..17) \cup (28..31) |->
     IF n <= 17
     THEN << "zero", "ra", "sp", "gp", "tp", "t0", "t1", "t2", "s0", "s1",
             "a0", "a1", "a2", "a3", "a4", "a5", "a6", "a7" >>[n + 1]
     ELSE << "t3", "t4", "t5", "t6" >>[n - 27]]

\* (variant: the table is read one entry too far)
getRegisterNameNext(regNum) ==
  IF regNum + 1 \in DOMAIN abiNames THEN abiNames[regNum + 1] ELSE "x" \o ToString(regNum)
\* abiNames[regNum] || `x${regNum}`
getRegisterName(regNum) ==
  IF regNum \in DOMAIN abiNames THEN abiNames[regNum] ELSE "x" \o ToString(regNum)

(***************************************************************************)
(* decodeFenceFlags                                                        *)
(***************************************************************************)
Bit(n, k) == (n \div 2^k) % 2
\* (variant: an empty flag string is returned as it is)
decodeFenceFlagsNoZero(nibble) ==
  (IF Bit(nibble, 3) = 1 THEN "i" ELSE "") \o (IF Bit(nibble, 2) = 1 THEN "o" ELSE "") \o
  (IF Bit(nibble, 1) = 1 THEN "r" ELSE "") \o (IF Bit(nibble, 0) = 1 THEN "w" ELSE "")
decodeFenceFlags(nibble) ==
  LET flags == (IF Bit(nibble, 3) = 1 THEN "i" ELSE "") \o
               (IF Bit(nibble, 2) = 1 THEN "o" ELSE "") \o
               (IF Bit(nibble, 1) = 1 THEN "r" ELSE "") \o
               (IF Bit(nibble, 0) = 1 THEN "w" ELSE "")
  IN  IF flags # "" THEN flags ELSE "0"

(***************************************************************************)
(* generateOperands                                                        *)
(***************************************************************************)
Reg(fields, name) == getRegisterName(ParseInt2(Field(fields, name)))

\* (variant: the '0x' prefix is left out)
UTypeImmediateNoPrefix(uImmBits) == Str(PadStart(ToString16Upper(ParseInt2(uImmBits)), 5, "0"))
\* `0x${uImm.toString(16).toUpperCase().padStart(5, '0')}`
UTypeImmediate(uImmBits) == "0x" \o Str(PadStart(ToString16Upper(ParseInt2(uImmBits)), 5, "0"))

generateOperands(instructionType, fields, mnemonic, opcode) ==
  CASE instructionType = "R" ->
         << Reg(fields, "rd"), Reg(fields, "rs1"), Reg(fields, "rs2") >>
    [] instructionType = "I" ->
         IF opcode = "1100111" THEN
           LET jalrImm == signExtend(Field(fields, "imm[11:0]"), 12)
           IN  << Reg(fields, "rd"), ToString(jalrImm) \o "(" \o Reg(fields, "rs1") \o ")" >>
         ELSE IF opcode = "0001111" THEN
           IF mnemonic = "fence.i" THEN <<>>
           ELSE LET imm  == ParseInt2(Field(fields, "imm[11:0]"))
                    pred == (imm \div 2^8) % 16
                    succ == (imm \div 2^4) % 16
                IN  << decodeFenceFlags(pred), decodeFenceFlags(succ) >>
         ELSE IF opcode = "0000011" THEN
           LET loadImm == signExtend(Field(fields, "imm[11:0]"), 12)
           IN  << Reg(fields, "rd"), ToString(loadImm) \o "(" \o Reg(fields, "rs1") \o ")" >>
         ELSE IF opcode = "1110011" THEN
           IF mnemonic = "ecall" \/ mnemonic = "ebreak" THEN <<>>
           ELSE LET csr == ParseInt2(Field(fields, "imm[11:0]"))
                IN  << Reg(fields, "rd"), "0x" \o Str(ToString16Upper(csr)),
                       IF mnemonic \in {"csrrwi", "csrrsi", "csrrci"}
                       THEN ToString(ParseInt2(Field(fields, "rs1")))
                       ELSE Reg(fields, "rs1") >>
         ELSE
           LET funct3 == Str(FieldOrEmpty(fields, "funct3"))
           IN  << Reg(fields, "rd"), Reg(fields, "rs1"),
                  IF funct3 = "001" \/ funct3 = "101"
                  THEN ToString(ParseInt2(SliceFrom(Field(fields, "imm[11:0]"), -5)))
                  ELSE ToString(signExtend(Field(fields, "imm[11:0]"), 12)) >>
    [] instructionType = "S" ->
         LET sImm == signExtend(Field(fields, "imm[11:5]") \o Field(fields, "imm[4:0]"), 12)
         IN  << Reg(fields, "rs2"), ToString(sImm) \o "(" \o Reg(fields, "rs1") \o ")" >>
    [] instructionType = "B" ->
         LET bImm12_10_5 == Field(fields, "imm[12|10:5]")
             bImm4_1_11  == Field(fields, "imm[4:1|11]")
             bImm12      == <<bImm12_10_5[1]>>
             bImm10_5    == SliceFrom(bImm12_10_5, 1)
             bImm11      == <<bImm4_1_11[Len(bImm4_1_11)]>>
             bImm4_1     == Slice(bImm4_1_11, 0, -1)
             bImmBits    == bImm12 \o bImm11 \o bImm10_5 \o bImm4_1 \o <<"0">>
             bImm        == signExtend(bImmBits, 13)
         IN  << Reg(fields, "rs1"), Reg(fields, "rs2"), ToString(bImm) >>
    [] instructionType = "U" ->
         << Reg(fields, "rd"), UTypeImmediate(Field(fields, "imm[31:12]")) >>
    [] instructionType = "J" ->
         LET jImmBits == Field(fields, "imm[20|10:1|11|19:12]")
             imm20    == <<jImmBits[1]>>
             imm10_1  == Slice(jImmBits, 1, 11)
             imm11    == <<jImmBits[12]>>
             imm19_12 == Slice(jImmBits, 12, 20)
             reconstructedImm == imm20 \o imm19_12 \o imm11 \o imm10_1 \o <<"0">>
             jImm     == signExtend(reconstructedImm, 21)
         IN  << Reg(fields, "rd"), ToString(jImm) >>
    [] OTHER -> <<>>

(***************************************************************************)
(* generateDescription                                                     *)
(***************************************************************************)
descriptions ==
  Table(<< "add", "sub", "sll", "slt", "sltu", "xor", "srl", "sra", "or", "and",
           "addi", "slli", "slti", "sltiu", "xori", "srli", "srai", "ori", "andi",
           "lb", "lh", "lw", "lbu", "lhu",
           "sb", "sh", "sw",
           "beq", "bne", "blt", "bge", "bltu", "bgeu",
           "lui", "auipc",
           "jal", "jalr",
           "ecall", "ebreak", "fence", "fence.i",
           "csrrw", "csrrs", "csrrc", "csrrwi", "csrrsi", "csrrci" >>,
        << "Add two registers", "Subtract two registers", "Shift left logical",
           "Set less than", "Set less than unsigned", "Bitwise XOR",
           "Shift right logical", "Shift right arithmetic", "Bitwise OR", "Bitwise AND",
           "Add immediate to register", "Shift left logical immediate",
           "Set less than immediate", "Set less than immediate unsigned",
           "Bitwise XOR immediate", "Shift right logical immediate",
           "Shift right arithmetic immediate", "Bitwise OR immediate", "Bitwise AND immediate",
           "Load byte", "Load halfword", "Load word", "Load byte unsigned",
           "Load halfword unsigned",
           "Store byte", "Store halfword", "Store word",
           "Branch if equal", "Branch if not equal", "Branch if less than",
           "Branch if greater than or equal", "Branch if less than unsigned",
           "Branch if greater than or equal unsigned",
           "Load upper immediate", "Add upper immediate to PC",
           "Jump and link", "Jump and link register",
           "Environment call", "Environment break", "Fence", "Fence instruction cache",
           "Read/Write CSR", "Read and Set bits in CSR", "Read and Clear bits in CSR",
           "Read/Write CSR immediate", "Read and Set bits in CSR immediate",
           "Read and Clear bits in CSR immediate" >>)

\* (variant: the table is not consulted)
generateDescriptionFallbackOnly(mnemonic, instructionType) == mnemonic \o " instruction"
\* descriptions[mnemonic] || `${mnemonic} instruction`
generateDescription(mnemonic, instructionType) ==
  Lookup(descriptions, mnemonic, mnemonic \o " instruction")

(***************************************************************************)
(* RiscVDecoderService.decode                                              *)
(***************************************************************************)
InvalidHexMessage == "Invalid hex input. Must be 8 hex characters (32-bit instruction)."
UnknownOpcodeMessage(opcode) == "Unknown opcode: " \o Str(opcode)

Thrown(msg) == [kind |-> "error", message |-> msg]
Returned(v) == [kind |-> "ok", value |-> v]

\* (variant: binary.slice(26, 32))
OpcodeSliceShort(binary) == Slice(binary, 26, 32)
\* the 7 characters binary.slice(25, 32)
OpcodeSlice(binary) == Slice(binary, 25, 32)

\* (variant: only the all-zero opcode is let through)
IsDegenerateOpcodeZeroOnly(opcode) == opcode = "0000000"
\* the opcodes that are absent from opcodeMap and still decode
IsDegenerateOpcode(opcode) == opcode = "0000000" \/ opcode = "1111111"

decodeWord(h, cleanHex) ==
  LET binary == hexToBinary(cleanHex)
      opcode == OpcodeSlice(binary)
  IN  IF Str(opcode) \notin DOMAIN opcodeMap THEN
        IF IsDegenerateOpcode(Str(opcode)) THEN
          Returned([ hex |-> h, binary |-> binary, opcode |-> opcode,
                     instructionType |-> "unknown", mnemonic |-> "unknown",
                     operands |-> <<>>, description |-> "Unknown instruction",
                     fields |-> <<>> ])
        ELSE Thrown(UnknownOpcodeMessage(opcode))
      ELSE
        LET opcodeInfo  == opcodeMap[Str(opcode)]
            format      == instructionFormats[opcodeInfo.instructionType]
            fields      == extractFields(binary, format)
            mnemonic    == getMnemonic(opcodeInfo, fields)
            operands    == generateOperands(opcodeInfo.instructionType, fields, mnemonic,
                                            opcodeInfo.opcode)
            description == generateDescription(mnemonic, opcodeInfo.instructionType)
        IN  Returned([ hex |-> cleanHex, binary |-> binary, opcode |-> opcode,
                       instructionType |-> opcodeInfo.instructionType,
                       mnemonic |-> mnemonic, operands |-> operands,
                       description |-> description, fields |-> fields ])

decode(h) ==
  LET cleanHex == CleanHex(h)
  IN  IF ~HexPattern(cleanHex) THEN Thrown(InvalidHexMessage)
      ELSE decodeWord(h, cleanHex)

(***************************************************************************)
(* DecodeController.decode                                                 *)
(***************************************************************************)
HexRequiredMessage == "Hex parameter is required"

BadRequestException(msg) == [status |-> 400, message |-> msg]
Ok(body) == [status |-> 200, body |-> body]

\* !hex : the query parameter is missing or the empty string
IsFalsy(q) == ~q.present \/ q.chars = <<>>

\* what Nest answers when a handler throws anything but an HttpException
InternalServerError == [status |-> 500, message |-> "Internal server error"]

\* (variant: the service is called outside any try/catch)
controllerDecodeNoCatch(q) ==
  IF IsFalsy(q) THEN BadRequestException(HexRequiredMessage)
  ELSE LET r == decode(q.chars)
       IN  IF r.kind = "ok" THEN Ok(r.value) ELSE InternalServerError

controllerDecode(q) ==
  IF IsFalsy(q) THEN BadRequestException(HexRequiredMessage)
  ELSE LET r == decode(q.chars)
       IN  IF r.kind = "ok" THEN Ok(r.value) ELSE BadRequestException(r.message)

(***************************************************************************)
(* The arguments the model decodes                                         *)
(***************************************************************************)
\* low register numbers 0..MaxReg are sampled in the rs2 position
MaxReg == 3
\* at most MaxWs whitespace characters are inserted into an argument
MaxWs == 2

\* n as a w-bit string, most significant bit first
Bits(n, w) == PadStart(ToString2(n), w, "0")

\* the 8 upper-case hex digits of a 32-character bit string
HexOfBits(b) == [i \in 1..8 |-> HexDigitChars[ParseInt2(SubSeq(b, 4 * i - 3, 4 * i)) + 1]]

\* the word with the given value in each of the five upper bit groups and the opcode
Word(f7, rs2, rs1, f3, rd, op) ==
  HexOfBits(Bits(f7, 7) \o Bits(rs2, 5) \o Bits(rs1, 5) \o Bits(f3, 3) \o Bits(rd, 5) \o Bits(op, 7))

TableOpcodes == {51, 19, 3, 35, 99, 55, 23, 111, 103, 15, 115}
Funct7Samples == {0, 1, 32, 127}
Rs2Samples == (0..MaxReg) \cup {31}
Rs1Samples == {0, 2, 18, 31}
RdSamples == {0, 1, 31}

\* words whose opcode is in the opcode table: every funct3, sampled other fields
TableWords ==
  { Word(f7, rs2, rs1, f3, rd, op) :
      f7 \in Funct7Samples, rs2 \in Rs2Samples, rs1 \in Rs1Samples,
      f3 \in 0..7, rd \in RdSamples, op \in TableOpcodes }

\* words of every other opcode, with the upper 25 bits all zero, all one, or mixed
OtherWords ==
  { Word(u[1], u[2], u[3], u[4], u[5], op) :
      u \in { <<0, 0, 0, 0, 0>>, <<127, 31, 31, 7, 31>>, <<85, 10, 21, 2, 9>> },
      op \in (0..127) \ TableOpcodes }

\* register-register and register-immediate words with every funct7 and funct3
SubPatternWords ==
  { Word(f7, 3, 2, f3, 1, op) : f7 \in 0..127, f3 \in 0..7, op \in {51, 19} }

\* fence words with every predecessor and successor nibble
FenceWords ==
  { Word((p * 256 + q * 16) \div 32, (p * 256 + q * 16) % 32, 0, f3, 0, 15) :
      p \in 0..15, q \in 0..15, f3 \in {0, 1} }

\* words of the unit tests: addi x1, x2, -100 / -4 and sb x1, 100(x2)
ExampleWords ==
  { <<"F", "9", "C", "1", "0", "0", "9", "3">>, <<"F", "F", "C", "1", "0", "0", "9", "3">>,
    <<"0", "6", "1", "1", "0", "2", "2", "3">> }

Words == TableWords \cup OtherWords \cup SubPatternWords \cup FenceWords \cup ExampleWords

ToLowerCaseChar(c) == IF InSeq(UpperLetters, c) THEN LowerLetters[IndexOf(UpperLetters, c)] ELSE c
ToLowerCase(s) == [i \in 1..Len(s) |-> ToLowerCaseChar(s[i])]

InsertAt(s, p, t) == SubSeq(s, 1, p) \o t \o SubSeq(s, p + 1, Len(s))

\* the words that are also written in lower case, with whitespace, or damaged
VariantWords ==
  { Word(0, 3, 2, 0, 1, 51), Word(0, 11, 10, 0, 10, 51), Word(127, 31, 31, 7, 31, 127),
    Word(0, 0, 0, 0, 0, 0), Word(127, 31, 31, 7, 31, 126), Word(85, 28, 27, 6, 29, 19) }

Cased(w) == {w, ToLowerCase(w)}

\* w with up to MaxWs whitespace characters at one or two places
SpacedWithin(w) ==
  { InsertAt(InsertAt(w, p[2], Repeat(c[2], k[2])), p[1], Repeat(c[1], k[1])) :
      p \in {0, 2} \X {4, 8}, c \in WhitespaceChars \X {" "},
      k \in {kk \in (0..MaxWs) \X (0..MaxWs) : kk[1] + kk[2] <= MaxWs} }

\* strings that are not 8 hex digits once cleaned
Damaged(w) ==
  { SubSeq(w, 1, n) : n \in 0..7 }
  \cup { w \o <<c>> : c \in {"0", "F", "g"} }
  \cup { [w EXCEPT ![i] = c] : i \in {1, 5, 8}, c \in {"G", "g", "x", "-", "."} }
  \cup { <<"0", c>> \o w : c \in {"x", "X"} }
  \cup { <<"0", "x">> \o InsertAt(w, 4, <<" ">>), <<" ", "0", "x">> \o w }
  \cup { Repeat(c, k) : c \in WhitespaceChars, k \in 1..MaxWs }

Inputs ==
  Words
  \cup UNION { SpacedWithin(v) : v \in UNION { Cased(w) : w \in VariantWords } }
  \cup UNION { Damaged(v) : v \in UNION { Cased(w) : w \in VariantWords } }
  \cup { <<"i", "n", "v", "a", "l", "i", "d">> }

Present(s) == [present |-> TRUE, chars |-> s]
Missing == [present |-> FALSE, chars |-> <<>>]

\* every argument: a string, or (for the HTTP handler only) no hex parameter at all
Requests == { Present(s) : s \in Inputs } \cup { Missing }

(***************************************************************************)
(* The state machine: one call of the service or of the HTTP handler       *)
(***************************************************************************)
NoResult == [kind |-> "none"]
NoResponse == [status |-> 0]

\* null, and a value that is not null
Null == [isNull |-> TRUE]
Some(v) == [isNull |-> FALSE, value |-> v]

\* no frontend component is mounted and no decode action runs
Unmounted == [hex |-> <<>>, decoded |-> Null, loading |-> FALSE, error |-> Null]
NoAction == [pc |-> "idle", hex |-> <<>>, cleanHex |-> <<>>, res |-> NoResponse, thrown |-> ""]

\* the private readonly fields of the service, as constructed
ServiceFields ==
  [ instructionFormats |-> instructionFormats,
    opcodeMap |-> opcodeMap,
    rTypeInstructions |-> rTypeInstructions,
    iTypeInstructions |-> iTypeInstructions,
    iTypeShiftInstructions |-> iTypeShiftInstructions,
    loadInstructions |-> loadInstructions,
    storeInstructions |-> storeInstructions,
    branchInstructions |-> branchInstructions,
    csrInstructions |-> csrInstructions ]

Init ==
  /\ hex \in Requests
  /\ pc = "call"
  /\ result = NoResult
  /\ response = NoResponse
  /\ calls = <<>>
  /\ frames = <<>>
  /\ service = ServiceFields
  /\ ui = Unmounted
  /\ action = NoAction

\* service.decode(hex), called directly with a string
ServiceDecode ==
  /\ pc = "call"
  /\ hex.present
  /\ result' = decode(hex.chars)
  /\ pc' = "decoded"
  /\ UNCHANGED <<hex, response, calls, frames, service, ui, action>>

\* GET /api/decode?hex=...
ControllerDecode ==
  /\ pc = "call"
  /\ response' = controllerDecode(hex)
  /\ pc' = "responded"
  /\ UNCHANGED <<hex, result, calls, frames, service, ui, action>>

Next == ServiceDecode \/ ControllerDecode

Spec == Init /\ [][Next]_vars

TypeOK ==
  /\ pc \in {"call", "decoded", "responded"}
  /\ result.kind \in {"none", "ok", "error"}
  /\ response.status \in {0, 200, 400, 500}

(***************************************************************************)
(* Concurrent calls of decode on one service instance, each advancing one  *)
(* group of statements at a time                                           *)
(***************************************************************************)
NumCalls == 2

\* an add word in lower case with whitespace, a lui word, a csrrwi word, a
\* nine-digit string, an unmapped opcode and an all-ones word
ConcurrentInputs ==
  { InsertAt(ToLowerCase(Word(0, 11, 10, 0, 10, 51)), 4, <<" ">>),
    Word(9, 3, 2, 0, 1, 55), Word(1, 3, 2, 5, 1, 115),
    Word(0, 3, 2, 0, 1, 51) \o <<"0">>,
    Word(127, 31, 31, 7, 31, 126), Word(127, 31, 31, 7, 31, 127) }

\* (variant: the locals live on the instance, one copy for all calls)
FrameShared(call) == 1
\* the activation record holding the const locals of a call
Frame(call) == call

NoFrame ==
  [ cleanHex |-> <<>>, binary |-> <<>>, opcode |-> <<>>,
    opcodeInfo |-> OpcodeInfo("", "", ""), fields |-> <<>>, mnemonic |-> "" ]

InitConcurrent ==
  /\ hex = Missing
  /\ pc = "call"
  /\ result = NoResult
  /\ response = NoResponse
  /\ calls \in [1..NumCalls -> { [hex |-> h, pc |-> "clean", result |-> NoResult] :
                                  h \in ConcurrentInputs }]
  /\ frames = [c \in 1..NumCalls |-> NoFrame]
  /\ service = ServiceFields
  /\ ui = Unmounted
  /\ action = NoAction

Goto(call, label) == [calls EXCEPT ![call].pc = label]
Done(call, r) == [calls EXCEPT ![call].pc = "done", ![call].result = r]

\* cleanHex is computed and tested
CleanStep(call) ==
  /\ calls[call].pc = "clean"
  /\ LET cleanHex == CleanHex(calls[call].hex)
     IN  /\ frames' = [frames EXCEPT ![Frame(call)].cleanHex = cleanHex]
         /\ calls' = IF ~HexPattern(cleanHex) THEN Done(call, Thrown(InvalidHexMessage))
                     ELSE Goto(call, "binary")
  /\ UNCHANGED <<hex, pc, result, response, service, ui, action>>

\* binary and opcode are computed
BinaryStep(call) ==
  /\ calls[call].pc = "binary"
  /\ LET binary == hexToBinary(frames[Frame(call)].cleanHex)
     IN  frames' = [frames EXCEPT ![Frame(call)].binary = binary,
                                  ![Frame(call)].opcode = OpcodeSlice(binary)]
  /\ calls' = Goto(call, "lookup")
  /\ UNCHANGED <<hex, pc, result, response, service, ui, action>>

\* opcodeInfo is read from the opcode map; without one the call ends
LookupStep(call) ==
  /\ calls[call].pc = "lookup"
  /\ LET f == frames[Frame(call)]
     IN  IF Str(f.opcode) \notin DOMAIN service.opcodeMap THEN
           /\ calls' = Done(call,
                  IF IsDegenerateOpcode(Str(f.opcode)) THEN
                    Returned([ hex |-> calls[call].hex, binary |-> f.binary,
                               opcode |-> f.opcode,
                               instructionType |-> "unknown", mnemonic |-> "unknown",
                               operands |-> <<>>, description |-> "Unknown instruction",
                               fields |-> <<>> ])
                  ELSE Thrown(UnknownOpcodeMessage(f.opcode)))
           /\ UNCHANGED frames
         ELSE
           /\ frames' = [frames EXCEPT ![Frame(call)].opcodeInfo = service.opcodeMap[Str(f.opcode)]]
           /\ calls' = Goto(call, "extract")
  /\ UNCHANGED <<hex, pc, result, response, service, ui, action>>

\* format is read from the format table and fields are extracted
ExtractStep(call) ==
  /\ calls[call].pc = "extract"
  /\ LET f == frames[Frame(call)]
         format == service.instructionFormats[f.opcodeInfo.instructionType]
     IN  frames' = [frames EXCEPT ![Frame(call)].fields = extractFields(f.binary, format)]
  /\ calls' = Goto(call, "mnemonic")
  /\ UNCHANGED <<hex, pc, result, response, service, ui, action>>

\* mnemonic is resolved
MnemonicStep(call) ==
  /\ calls[call].pc = "mnemonic"
  /\ LET f == frames[Frame(call)]
     IN  frames' = [frames EXCEPT ![Frame(call)].mnemonic = getMnemonic(f.opcodeInfo, f.fields)]
  /\ calls' = Goto(call, "return")
  /\ UNCHANGED <<hex, pc, result, response, service, ui, action>>

\* operands and description are computed and the result is returned
ReturnStep(call) ==
  /\ calls[call].pc = "return"
  /\ LET f == frames[Frame(call)]
         operands == generateOperands(f.opcodeInfo.instructionType, f.fields, f.mnemonic,
                                      f.opcodeInfo.opcode)
         description == generateDescription(f.mnemonic, f.opcodeInfo.instructionType)
     IN  calls' = Done(call,
           Returned([ hex |-> f.cleanHex, binary |-> f.binary, opcode |-> f.opcode,
                      instructionType |-> f.opcodeInfo.instructionType,
                      mnemonic |-> f.mnemonic, operands |-> operands,
                      description |-> description, fields |-> f.fields ]))
  /\ UNCHANGED <<hex, pc, result, response, frames, service, ui, action>>

NextConcurrent ==
  \E call \in 1..NumCalls :
    \/ CleanStep(call)
    \/ BinaryStep(call)
    \/ LookupStep(call)
    \/ ExtractStep(call)
    \/ MnemonicStep(call)
    \/ ReturnStep(call)

SpecConcurrent == InitConcurrent /\ [][NextConcurrent]_vars

(***************************************************************************)
(* The frontend component RiscVDecoder: its field-range table, its decode  *)
(* action, one statement group at a time, and the backend behind fetch     *)
(***************************************************************************)
\* fieldRanges of renderColoredBinary, in insertion order: <<field, start, end>>
fieldRanges ==
  [ R |-> << <<"funct7", 0, 6>>, <<"rs2", 7, 11>>, <<"rs1", 12, 16>>,
             <<"funct3", 17, 19>>, <<"rd", 20, 24>>, <<"opcode", 25, 31>> >>,
    I |-> << <<"imm[11:0]", 0, 11>>, <<"rs1", 12, 16>>,
             <<"funct3", 17, 19>>, <<"rd", 20, 24>>, <<"opcode", 25, 31>> >>,
    S |-> << <<"imm[11:5]", 0, 6>>, <<"rs2", 7, 11>>, <<"rs1", 12, 16>>,
             <<"funct3", 17, 19>>, <<"imm[4:0]", 20, 24>>, <<"opcode", 25, 31>> >>,
    B |-> << <<"imm[12|10:5]", 0, 6>>, <<"rs2", 7, 11>>, <<"rs1", 12, 16>>,
             <<"funct3", 17, 19>>, <<"imm[4:1|11]", 20, 24>>, <<"opcode", 25, 31>> >>,
    U |-> << <<"imm[31:12]", 0, 19>>, <<"rd", 20, 24>>, <<"opcode", 25, 31>> >>,
    J |-> << <<"imm[20|10:1|11|19:12]", 0, 19>>, <<"rd", 20, 24>>, <<"opcode", 25, 31>> >> ]

\* (variant: binary.slice(start, end))
fieldBinaryExclusive(binary, start, end) == Slice(binary, start, end)
\* binary.slice(start, end + 1)
fieldBinary(binary, start, end) == Slice(binary, start, end + 1)

\* the segments renderColoredBinary builds: fieldRanges[instructionType] || {}
renderColoredBinary(binary, instructionType) ==
  LET ranges == IF instructionType \in DOMAIN fieldRanges THEN fieldRanges[instructionType]
                ELSE <<>>
  IN  [i \in 1..Len(ranges) |->
         [field |-> ranges[i][1], text |-> fieldBinary(binary, ranges[i][2], ranges[i][3])]]

\* hex.replace(/^0x/, '')
RemovePrefix0x(s) ==
  IF Len(s) >= 2 /\ s[1] = "0" /\ s[2] = "x" THEN SubSeq(s, 3, Len(s)) ELSE s
\* hex.replace(/^0x/, '').replace(/\s/g, '')
FrontendCleanHex(s) == StripWhitespace(RemovePrefix0x(s))

IsHexDigitEitherCase(c) == InSeq(HexDigitChars, c) \/ InSeq(<<"a", "b", "c", "d", "e", "f">>, c)
\* (variant: the pattern without its closing anchor)
FrontendHexPatternOpenEnded(s) ==
  Len(s) >= 8 /\ \A i \in 1..8 : IsHexDigitEitherCase(s[i])
\* /^[0-9A-Fa-f]{8}$/.test(cleanHex)
FrontendHexPattern(s) == Len(s) = 8 /\ \A i \in 1..Len(s) : IsHexDigitEitherCase(s[i])

FrontendInvalidHexMessage == "Invalid hex input. Must be 8 hex characters (32-bit instruction)."

\* what the user may have typed: one word of each family, an all-zero word and
\* an unmapped opcode; the first word prefixed, spaced, in lower case, damaged
FrontendWords ==
  { Word(0, 11, 10, 0, 10, 51), Word(127, 28, 2, 5, 1, 19), Word(3, 1, 2, 2, 1, 35),
    Word(127, 31, 2, 0, 31, 99), Word(9, 3, 2, 0, 1, 55), Word(127, 31, 31, 7, 1, 111),
    Word(0, 0, 0, 0, 0, 0), Word(127, 31, 31, 7, 31, 126) }
FrontendInputs ==
  FrontendWords
  \cup { ToLowerCase(Word(0, 11, 10, 0, 10, 51)),
         <<"0", "x">> \o ToLowerCase(Word(0, 11, 10, 0, 10, 51)),
         <<"0", "x">> \o InsertAt(Word(0, 11, 10, 0, 10, 51), 4, <<" ">>),
         <<"0", "X">> \o Word(0, 11, 10, 0, 10, 51),
         <<" ", "0", "x">> \o Word(0, 11, 10, 0, 10, 51),
         Word(0, 11, 10, 0, 10, 51) \o <<"0">>,
         <<"i", "n", "v", "a", "l", "i", "d">>,
         <<>> }

\* the component is mounted with some text in the input and nothing decoded
InitFrontend ==
  /\ hex = Missing
  /\ pc = "call"
  /\ result = NoResult
  /\ response = NoResponse
  /\ calls = <<>>
  /\ frames = <<>>
  /\ service = ServiceFields
  /\ ui \in { [hex |-> h, decoded |-> Null, loading |-> FALSE, error |-> Null] :
               h \in FrontendInputs }
  /\ action = NoAction

backend == <<hex, pc, result, response, calls, frames, service>>

\* onChange of the text input: setHex
SetHex ==
  /\ \E h \in FrontendInputs : ui' = [ui EXCEPT !.hex = h]
  /\ UNCHANGED <<backend, action>>

\* a click on the Decode button, which does not react while loading:
\* setLoading(true); setError(null)
StartDecode ==
  /\ ~ui.loading
  /\ action.pc \in {"idle", "done"}
  /\ ui' = [ui EXCEPT !.loading = TRUE, !.error = Null]
  /\ action' = [NoAction EXCEPT !.pc = "validate", !.hex = ui.hex]
  /\ UNCHANGED backend

\* cleanHex is computed and tested; the request is issued or an Error thrown
Validate ==
  /\ action.pc = "validate"
  /\ LET cleanHex == FrontendCleanHex(action.hex)
     IN  action' = IF ~FrontendHexPattern(cleanHex)
                   THEN [action EXCEPT !.pc = "catch", !.cleanHex = cleanHex,
                                       !.thrown = FrontendInvalidHexMessage]
                   ELSE [action EXCEPT !.pc = "fetching", !.cleanHex = cleanHex]
  /\ UNCHANGED <<backend, ui>>

\* the answer of GET /api/decode?hex=<query>
BackendResponse(query) == controllerDecode(Present(query))

\* an answer that does not come from the backend: a gateway without a JSON message
GatewayError == [status |-> 502, message |-> ""]

\* the fetch promise rejects: no connection
FetchRejects ==
  /\ action.pc = "fetching"
  /\ action' = [action EXCEPT !.pc = "catch", !.thrown = "Failed to fetch"]
  /\ UNCHANGED <<backend, ui>>

\* the fetch promise resolves with the backend's answer, or a gateway's
FetchResolves ==
  /\ action.pc = "fetching"
  /\ \E res \in {BackendResponse(action.cleanHex), GatewayError} :
       action' = [action EXCEPT !.pc = "responded", !.res = res]
  /\ UNCHANGED <<backend, ui>>

\* setDecoded(data)
SetDecoded(state, data) == [state EXCEPT !.decoded = Some(data)]

\* !res.ok: throw new Error(errorData.message || 'API error'); else setDecoded(data)
ReadResponse ==
  /\ action.pc = "responded"
  /\ IF action.res.status \notin 200..299
     THEN /\ action' = [action EXCEPT !.pc = "catch",
                                      !.thrown = OrElse(action.res.message, "API error")]
          /\ UNCHANGED ui
     ELSE /\ ui' = SetDecoded(ui, action.res.body)
          /\ action' = [action EXCEPT !.pc = "finally"]
  /\ UNCHANGED backend

\* (variant: setDecoded(null) is left out)
CatchKeepingDecoded(state, message) == [state EXCEPT !.error = Some(message)]
\* setError(err.message); setDecoded(null)
Catch(state, message) == [state EXCEPT !.error = Some(message), !.decoded = Null]

CatchBlock ==
  /\ action.pc = "catch"
  /\ ui' = Catch(ui, action.thrown)
  /\ action' = [action EXCEPT !.pc = "finally"]
  /\ UNCHANGED backend

\* finally: setLoading(false)
FinallyBlock ==
  /\ action.pc = "finally"
  /\ ui' = [ui EXCEPT !.loading = FALSE]
  /\ action' = [action EXCEPT !.pc = "done"]
  /\ UNCHANGED backend

NextFrontend ==
  \/ SetHex
  \/ StartDecode
  \/ Validate
  \/ FetchRejects
  \/ FetchResolves
  \/ ReadResponse
  \/ CatchBlock
  \/ FinallyBlock

SpecFrontend == InitFrontend /\ [][NextFrontend]_vars

\* a started action is run on by the event loop, and a fetch settles
SpecFrontendLive ==
  /\ SpecFrontend
  /\ WF_vars(Validate)
  /\ WF_vars(FetchRejects \/ FetchResolves)
  /\ WF_vars(ReadResponse)
  /\ WF_vars(CatchBlock)
  /\ WF_vars(FinallyBlock)

(***************************************************************************)
(* The argument as the properties below read it: the 32 bits of the word,  *)
(* numbered as the RISC-V manual numbers them (bit 31 first, bit 0 last),  *)
(* obtained digit by digit and without the decoder's string slicing.       *)
(***************************************************************************)
UpperHexDigitSet == {"0","1","2","3","4","5","6","7","8","9","A","B","C","D","E","F"}

RECURSIVE Normalized(_)
\* the argument with all whitespace removed and every letter in upper case
Normalized(s) ==
  IF s = <<>> THEN <<>>
  ELSE IF Head(s) \in WhitespaceChars THEN Normalized(Tail(s))
  ELSE <<ToUpperCaseChar(Head(s))>> \o Normalized(Tail(s))

IsCanonicalHex(s) == Len(s) = 8 /\ \A i \in 1..Len(s) : s[i] \in UpperHexDigitSet

NibbleBits ==
  "0" :> <<0,0,0,0>> @@ "1" :> <<0,0,0,1>> @@ "2" :> <<0,0,1,0>> @@ "3" :> <<0,0,1,1>> @@
  "4" :> <<0,1,0,0>> @@ "5" :> <<0,1,0,1>> @@ "6" :> <<0,1,1,0>> @@ "7" :> <<0,1,1,1>> @@
  "8" :> <<1,0,0,0>> @@ "9" :> <<1,0,0,1>> @@ "A" :> <<1,0,1,0>> @@ "B" :> <<1,0,1,1>> @@
  "C" :> <<1,1,0,0>> @@ "D" :> <<1,1,0,1>> @@ "E" :> <<1,1,1,0>> @@ "F" :> <<1,1,1,1>>

\* the 32 bits of 8 canonical hex digits, bit 31 first
WordBitsOf(s) ==
  NibbleBits[s[1]] \o NibbleBits[s[2]] \o NibbleBits[s[3]] \o NibbleBits[s[4]] \o
  NibbleBits[s[5]] \o NibbleBits[s[6]] \o NibbleBits[s[7]] \o NibbleBits[s[8]]

RECURSIVE ArchValue(_, _, _)
\* the unsigned value of bits [high:low] of the word b
ArchValue(b, high, low) == IF high < low THEN 0 ELSE ArchValue(b, high, low + 1) * 2 + b[32 - low]

\* bits [high:low] of the word b as a string of '0' and '1', high bit first
ArchString(b, high, low) == [i \in 1..(high - low + 1) |-> IF b[31 - high + i] = 1 THEN "1" ELSE "0"]

\* the call in the current state is a call of the service with a string
ServiceCalled == pc = "decoded"
ArgValid == hex.present /\ IsCanonicalHex(Normalized(hex.chars))
ArgWord == WordBitsOf(Normalized(hex.chars))
ArgOpcode == ArchValue(ArgWord, 6, 0)
ArgFunct3 == ArchValue(ArgWord, 14, 12)
ArgFunct7 == ArchValue(ArgWord, 31, 25)
ArgRd == ArchValue(ArgWord, 11, 7)
ArgRs1 == ArchValue(ArgWord, 19, 15)
ArgRs2 == ArchValue(ArgWord, 24, 20)
ArgImm12 == ArchValue(ArgWord, 31, 20)

\* the 11 opcodes of the opcode table and their format families
FamilyOfOpcode ==
  51 :> "R" @@ 19 :> "I" @@ 3 :> "I" @@ 35 :> "S" @@ 99 :> "B" @@ 55 :> "U" @@
  23 :> "U" @@ 111 :> "J" @@ 103 :> "I" @@ 15 :> "I" @@ 115 :> "I"

\* the declared bit ranges of each family: <<high, low>>, highest first
DeclaredRanges ==
  [ R |-> << <<31, 25>>, <<24, 20>>, <<19, 15>>, <<14, 12>>, <<11, 7>>, <<6, 0>> >>,
    I |-> << <<31, 20>>, <<19, 15>>, <<14, 12>>, <<11, 7>>, <<6, 0>> >>,
    S |-> << <<31, 25>>, <<24, 20>>, <<19, 15>>, <<14, 12>>, <<11, 7>>, <<6, 0>> >>,
    B |-> << <<31, 25>>, <<24, 20>>, <<19, 15>>, <<14, 12>>, <<11, 7>>, <<6, 0>> >>,
    U |-> << <<31, 12>>, <<11, 7>>, <<6, 0>> >>,
    J |-> << <<31, 12>>, <<11, 7>>, <<6, 0>> >> ]

RECURSIVE Concat(_)
\* the concatenation of the values of a fields mapping, in its order
Concat(fields) == IF fields = <<>> THEN <<>> ELSE Head(fields).value \o Concat(Tail(fields))

\* the two error texts of the response contract
InvalidHexText == "Invalid hex input. Must be 8 hex characters (32-bit instruction)."
UnknownOpcodeTexts == { "Unknown opcode: " \o Str(Bits(n, 7)) : n \in 0..127 }

(***************************************************************************)
(* C1                                                                      *)
(***************************************************************************)
\* C1: decode fails with the 'Invalid hex input...' message if and only if the
\* argument, with whitespace removed and in upper case, is not exactly 8
\* characters of [0-9A-F]; a malformed argument never gets as far as the
\* binary conversion or the opcode lookup (it yields no other outcome).
C1_InvalidHexIff ==
  ServiceCalled =>
    ((result = [kind |-> "error", message |-> InvalidHexText])
       <=> ~IsCanonicalHex(Normalized(hex.chars)))

\* an argument of nine hex digits was rejected
C1_Witness ==
  /\ ServiceCalled
  /\ result.kind = "error" /\ result.message = InvalidHexText
  /\ Len(Normalized(hex.chars)) = 9
  /\ \A i \in 1..9 : Normalized(hex.chars)[i] \in UpperHexDigitSet

(***************************************************************************)
(* C2                                                                      *)
(***************************************************************************)
\* C2: a valid argument whose opcode bits [6:0] are 0000000 or 1111111 raises
\* no error whatever its upper 25 bits are, and decodes to instructionType
\* 'unknown', mnemonic 'unknown', no operands, no fields and the description
\* 'Unknown instruction'.
C2_DegenerateOpcode ==
  (ServiceCalled /\ ArgValid /\ ArgOpcode \in {0, 127}) =>
    /\ result.kind = "ok"
    /\ result.value.instructionType = "unknown"
    /\ result.value.mnemonic = "unknown"
    /\ result.value.operands = <<>>
    /\ result.value.fields = <<>>
    /\ result.value.description = "Unknown instruction"

\* opcode 1111111 below upper bits that are not all ones
C2_Witness ==
  /\ ServiceCalled /\ ArgValid
  /\ ArgOpcode = 127 /\ ArgFunct7 = 85
  /\ result.kind = "ok" /\ result.value.mnemonic = "unknown"

(***************************************************************************)
(* C3                                                                      *)
(***************************************************************************)
\* C3: a valid argument whose opcode is none of the 11 table opcodes and
\* neither 0000000 nor 1111111 fails with 'Unknown opcode: ' followed by
\* exactly its 7 opcode bits, and returns nothing.
C3_UnknownOpcode ==
  (ServiceCalled /\ ArgValid /\ ArgOpcode \notin DOMAIN FamilyOfOpcode \cup {0, 127}) =>
    result = [kind |-> "error", message |-> "Unknown opcode: " \o Str(ArchString(ArgWord, 6, 0))]

\* FFFFFFFE: opcode 1111110
C3_Witness ==
  /\ ServiceCalled /\ ArgValid
  /\ ArgOpcode = 126
  /\ result.kind = "error" /\ result.message = "Unknown opcode: 1111110"

(***************************************************************************)
(* C4                                                                      *)
(***************************************************************************)
\* the sub-patterns that no mnemonic table names: an (funct7, funct3) pair
\* outside the ten R-type pairs, a funct3 outside the load, store or branch
\* table, and a system word with funct3 = 100 or with funct3 = 000 and an
\* immediate other than 0 and 1
ArgUnrecognised ==
  \/ ArgOpcode = 51 /\ ~(ArgFunct7 = 0 \/ (ArgFunct7 = 32 /\ ArgFunct3 \in {0, 5}))
  \/ ArgOpcode = 3 /\ ArgFunct3 \in {3, 6, 7}
  \/ ArgOpcode = 35 /\ ArgFunct3 \in 3..7
  \/ ArgOpcode = 99 /\ ArgFunct3 \in {2, 3}
  \/ ArgOpcode = 115 /\ (ArgFunct3 = 4 \/ (ArgFunct3 = 0 /\ ArgImm12 \notin {0, 1}))

\* fields holds one entry per declared range of the family, each with the bits of that range
FullFields(fields, family) ==
  /\ Len(fields) = Len(DeclaredRanges[family])
  /\ \A i \in 1..Len(fields) :
       fields[i].value = ArchString(ArgWord, DeclaredRanges[family][i][1], DeclaredRanges[family][i][2])

\* C4: a valid argument with one of the 11 table opcodes never raises an
\* error, whatever its funct3, funct7 and immediate bits are; the result
\* carries the full fields mapping of the opcode's family, and an
\* unrecognised sub-pattern gives the mnemonic 'unknown'.
C4_TableOpcodeNeverFails ==
  (ServiceCalled /\ ArgValid /\ ArgOpcode \in DOMAIN FamilyOfOpcode) =>
    /\ result.kind = "ok"
    /\ FullFields(result.value.fields, FamilyOfOpcode[ArgOpcode])
    /\ ArgUnrecognised => result.value.mnemonic = "unknown"

\* an R-type word with funct7 = 1111111 decoded to 'unknown' with its six fields
C4_Witness ==
  /\ ServiceCalled /\ ArgValid
  /\ ArgOpcode = 51 /\ ArgFunct7 = 127 /\ ArgFunct3 = 5
  /\ result.kind = "ok"
  /\ result.value.mnemonic = "unknown"
  /\ Len(result.value.fields) = 6

(***************************************************************************)
(* C5                                                                      *)
(***************************************************************************)
\* C5: the binary string returned for a valid argument has exactly 32
\* characters, all '0' or '1', most significant bit first, and denotes the
\* same number as the 8 hex digits: it is the digits' 4-bit expansions in order.
C5_BinaryIsTheWord ==
  (ServiceCalled /\ result.kind = "ok") =>
    /\ Len(result.value.binary) = 32
    /\ \A i \in 1..Len(result.value.binary) : result.value.binary[i] \in {"0", "1"}
    /\ result.value.binary = ArchString(ArgWord, 31, 0)

\* a word that needs left padding (bit 31 is 0) and one that exceeds 2^31
C5_Witness ==
  /\ ServiceCalled /\ result.kind = "ok"
  /\ ArgWord[1] = 0 /\ ArgWord[11] = 1
  /\ result.value.binary[11] = "1"

(***************************************************************************)
(* C6                                                                      *)
(***************************************************************************)
\* C6: in a successful decode of family R, I, S, B, U or J every field value
\* has the length of its declared bit range, and the field values
\* concatenated in declaration order are exactly the 32-character binary
\* string (the ranges cover the word with no gap and no overlap).
C6_FieldsPartitionTheWord ==
  (ServiceCalled /\ result.kind = "ok"
     /\ result.value.instructionType \in {"R", "I", "S", "B", "U", "J"}) =>
    LET ranges == DeclaredRanges[result.value.instructionType]
        fields == result.value.fields
    IN  /\ Len(fields) = Len(ranges)
        /\ \A i \in 1..Len(fields) : Len(fields[i].value) = ranges[i][1] - ranges[i][2] + 1
        /\ Concat(fields) = result.value.binary

\* a J-type word with a mixed immediate was split into its three fields
C6_Witness ==
  /\ ServiceCalled /\ result.kind = "ok"
  /\ result.value.instructionType = "J"
  /\ Len(result.value.fields) = 3
  /\ ArgFunct7 = 32 /\ ArgRs1 = 18

(***************************************************************************)
(* C7                                                                      *)
(***************************************************************************)
\* C7: on every successful decode, the degenerate all-zero / all-one opcode
\* fallback included, the returned hex is the canonical form of the
\* argument and matches ^[0-9A-F]{8}$.
C7_HexIsCanonical ==
  (ServiceCalled /\ result.kind = "ok") => IsCanonicalHex(result.value.hex)

(***************************************************************************)
(* C8                                                                      *)
(***************************************************************************)
XName(n) == "x" \o ToString(n)
\* the signed value of a bits-wide two's-complement number
Signed(v, bits) == IF v >= 2^(bits - 1) THEN v - 2^bits ELSE v
\* the 12-bit S-type immediate: word bits 31:25, then word bits 11:7
ArgSImm == ArchValue(ArgWord, 31, 25) * 32 + ArchValue(ArgWord, 11, 7)

\* C8: every register operand (rd, rs1, rs2 in any format, and the register
\* inside an 'imm(rs1)' operand) is 'x' followed by the decimal value of its
\* 5-bit field.
C8_RegistersAreXN ==
  (ServiceCalled /\ result.kind = "ok" /\ result.value.operands # <<>>) =>
    LET ops == result.value.operands
    IN  CASE ArgOpcode = 51 -> ops = <<XName(ArgRd), XName(ArgRs1), XName(ArgRs2)>>
          [] ArgOpcode = 19 -> ops[1] = XName(ArgRd) /\ ops[2] = XName(ArgRs1)
          [] ArgOpcode \in {3, 103} ->
               /\ ops[1] = XName(ArgRd)
               /\ ops[2] = ToString(Signed(ArgImm12, 12)) \o "(" \o XName(ArgRs1) \o ")"
          [] ArgOpcode = 35 ->
               /\ ops[1] = XName(ArgRs2)
               /\ ops[2] = ToString(Signed(ArgSImm, 12)) \o "(" \o XName(ArgRs1) \o ")"
          [] ArgOpcode = 99 -> ops[1] = XName(ArgRs1) /\ ops[2] = XName(ArgRs2)
          [] ArgOpcode \in {55, 23, 111} -> ops[1] = XName(ArgRd)
          [] ArgOpcode = 115 ->
               /\ ops[1] = XName(ArgRd)
               /\ ArgFunct3 \in {1, 2, 3} => ops[3] = XName(ArgRs1)
          [] OTHER -> TRUE

(***************************************************************************)
(* C9                                                                      *)
(***************************************************************************)
\* C9: the second operand of a U-type word (lui, auipc) is '0x' followed by
\* the 20-bit immediate shifted left by 12 bits as the full 32-bit upper-case
\* hex value: the first five hex digits of the word, then 000.
C9_UTypeShiftedImmediate ==
  (ServiceCalled /\ result.kind = "ok" /\ result.value.instructionType = "U") =>
    /\ Len(result.value.operands) = 2
    /\ result.value.operands[2] = "0x" \o Str(SubSeq(Normalized(hex.chars), 1, 5)) \o "000"

(***************************************************************************)
(* C10                                                                     *)
(***************************************************************************)
HandlerCalled == pc = "responded"

FieldNames(fields) == [i \in 1..Len(fields) |-> fields[i].name]

C16_SraiOrSrli ==
  (ServiceCalled /\ ArgValid /\ ArgOpcode = 19 /\ ArgFunct3 = 5) =>
    /\ result.kind = "ok"
    /\ result.value.mnemonic = (IF ArgFunct7 = 32 THEN "srai" ELSE "srli")

\* funct3 = 101 under funct7 = 1111111 fell back to srli
C16_Witness ==
  /\ ServiceCalled /\ ArgValid
  /\ ArgOpcode = 19 /\ ArgFunct3 = 5 /\ ArgFunct7 = 127
  /\ result.kind = "ok" /\ result.value.mnemonic = "srli"

AbiNameOf ==
  << "zero", "ra", "sp", "gp", "tp", "t0", "t1", "t2", "s0", "s1",
     "a0", "a1", "a2", "a3", "a4", "a5", "a6", "a7",
     "s2", "s3", "s4", "s5", "s6", "s7", "s8", "s9", "s10", "s11",
     "t3", "t4", "t5", "t6" >>

\* op is a name of register n (how a register is spelled is C8's subject)
NamesRegister(op, n) == op = XName(n) \/ op = AbiNameOf[n + 1]

RTypeMnemonic(f7, f3) ==
  IF f7 = 0 THEN <<"add", "sll", "slt", "sltu", "xor", "srl", "or", "and">>[f3 + 1]
  ELSE IF f7 = 32 /\ f3 = 0 THEN "sub"
  ELSE IF f7 = 32 /\ f3 = 5 THEN "sra"
  ELSE "unknown"

\* C18: for opcode 0110011 the (funct7, funct3) pair decides the mnemonic:
\* add, sll, slt, sltu, xor, srl, or, and under funct7 = 0000000, sub and sra
\* under (0100000, 000) and (0100000, 101); each other pair gives 'unknown',
\* with the three register operands [rd, rs1, rs2] and no error.
C18_RTypeMnemonics ==
  (ServiceCalled /\ ArgValid /\ ArgOpcode = 51) =>
    /\ result.kind = "ok"
    /\ result.value.mnemonic = RTypeMnemonic(ArgFunct7, ArgFunct3)
    /\ Len(result.value.operands) = 3
    /\ NamesRegister(result.value.operands[1], ArgRd)
    /\ NamesRegister(result.value.operands[2], ArgRs1)
    /\ NamesRegister(result.value.operands[3], ArgRs2)

\* the pair (0000001, 000) decoded to 'unknown' with rd, rs1, rs2 = 1, 2, 3
C18_Witness ==
  /\ ServiceCalled /\ ArgValid
  /\ ArgOpcode = 51 /\ ArgFunct7 = 1 /\ ArgFunct3 = 0
  /\ ArgRd = 1 /\ ArgRs1 = 2 /\ ArgRs2 = 3
  /\ result.kind = "ok"
  /\ result.value.mnemonic = "unknown" /\ Len(result.value.operands) = 3

(***************************************************************************)
(* C19                                                                     *)
(***************************************************************************)
LoadMnemonic(f3) == <<"lb", "lh", "lw", "unknown", "lbu", "lhu", "unknown", "unknown">>[f3 + 1]
StoreMnemonic(f3) == <<"sb", "sh", "sw", "unknown", "unknown", "unknown", "unknown", "unknown">>[f3 + 1]
BranchMnemonic(f3) == <<"beq", "bne", "unknown", "unknown", "blt", "bge", "bltu", "bgeu">>[f3 + 1]

\* C19: for the load, store and branch opcodes the mnemonic is a function of
\* funct3 alone, by the three tables; a funct3 outside the opcode's table
\* gives 'unknown', and no other bit of the word changes the mnemonic.
C19_Funct3Mnemonics ==
  (ServiceCalled /\ ArgValid /\ ArgOpcode \in {3, 35, 99}) =>
    /\ result.kind = "ok"
    /\ result.value.mnemonic =
         CASE ArgOpcode = 3 -> LoadMnemonic(ArgFunct3)
           [] ArgOpcode = 35 -> StoreMnemonic(ArgFunct3)
           [] ArgOpcode = 99 -> BranchMnemonic(ArgFunct3)

\* a branch word with funct3 = 110 and all-one upper bits decoded to bltu
C19_Witness ==
  /\ ServiceCalled /\ ArgValid
  /\ ArgOpcode = 99 /\ ArgFunct3 = 6 /\ ArgFunct7 = 127 /\ ArgRs2 = 31
  /\ result.kind = "ok" /\ result.value.mnemonic = "bltu"

(***************************************************************************)
(* C20                                                                     *)
(***************************************************************************)
\* the 13-bit B-type immediate: imm[12] = bit 31, imm[11] = bit 7,
\* imm[10:5] = bits 30:25, imm[4:1] = bits 11:8, imm[0] = 0
ArgBImm ==
  ArchValue(ArgWord, 31, 31) * 4096 + ArchValue(ArgWord, 7, 7) * 2048
    + ArchValue(ArgWord, 30, 25) * 32 + ArchValue(ArgWord, 11, 8) * 2

\* C20: the operand list of a B-type word is [rs1, rs2, imm], imm being the
\* signed decimal value of that 13-bit two's-complement number: always even
\* and in [-4096, 4094].
C20_BranchImmediate ==
  (ServiceCalled /\ ArgValid /\ ArgOpcode = 99) =>
    /\ result.kind = "ok"
    /\ Len(result.value.operands) = 3
    /\ NamesRegister(result.value.operands[1], ArgRs1)
    /\ NamesRegister(result.value.operands[2], ArgRs2)
    /\ result.value.operands[3] = ToString(Signed(ArgBImm, 13))
    /\ Signed(ArgBImm, 13) % 2 = 0
    /\ Signed(ArgBImm, 13) \in -4096..4094

\* a branch word with imm[12] = 1 and imm[11] = 1 gave a negative offset
C20_Witness ==
  /\ ServiceCalled /\ ArgValid
  /\ ArgOpcode = 99 /\ ArgFunct7 = 127 /\ ArgRd = 31
  /\ result.kind = "ok"
  /\ result.value.operands[3] = "-2"

(***************************************************************************)
(* C11                                                                     *)
(***************************************************************************)
WithoutWhitespace(s) == SelectSeq(s, LAMBDA c : c \notin WhitespaceChars)
HasPrefix0x(s) == Len(s) >= 2 /\ s[1] = "0" /\ s[2] = "x"
\* the request parameter without its whitespace and without a leading '0x'
RequestDigits ==
  LET s == WithoutWhitespace(hex.chars)
  IN  IF HasPrefix0x(s) THEN SubSeq(s, 3, Len(s)) ELSE s
\* the parameter is an optional '0x', then 8 hex digits, with embedded whitespace
RequestWellFormed == hex.present /\ IsCanonicalHex(Normalized(RequestDigits))

\* C11: a request whose hex parameter is an optional '0x' prefix followed by
\* 8 hex digits, with optional embedded whitespace, passes validation, and
\* the response is the one given for the bare 8 hex digits.
C11_PrefixAndWhitespaceAccepted ==
  (HandlerCalled /\ RequestWellFormed) =>
    /\ ~(response.status = 400 /\ response.message = InvalidHexText)
    /\ response = controllerDecode(Present(RequestDigits))

(***************************************************************************)
(* C13                                                                     *)
(***************************************************************************)
Kinds == {"reg", "dec", "mem", "hex", "flags"}

RegTexts == { XName(n) : n \in 0..31 } \cup { AbiNameOf[n + 1] : n \in 0..31 }
FlagTexts ==
  ({ (IF i = 1 THEN "i" ELSE "") \o (IF o = 1 THEN "o" ELSE "") \o
     (IF r = 1 THEN "r" ELSE "") \o (IF w = 1 THEN "w" ELSE "") :
       i \in 0..1, o \in 0..1, r \in 0..1, w \in 0..1 } \ {""}) \cup {"0"}

SImmOf(b) == ArchValue(b, 31, 25) * 32 + ArchValue(b, 11, 7)
BImmOf(b) ==
  ArchValue(b, 31, 31) * 4096 + ArchValue(b, 7, 7) * 2048
    + ArchValue(b, 30, 25) * 32 + ArchValue(b, 11, 8) * 2
JImmOf(b) ==
  ArchValue(b, 31, 31) * 1048576 + ArchValue(b, 19, 12) * 4096
    + ArchValue(b, 20, 20) * 2048 + ArchValue(b, 30, 21) * 2

\* the decimal numbers a word with these 8 digits can show as an operand
DecTexts(digits) ==
  LET b == WordBitsOf(digits)
  IN  { ToString(v) : v \in { Signed(ArchValue(b, 31, 20), 12), ArchValue(b, 24, 20),
                              ArchValue(b, 19, 15), Signed(SImmOf(b), 12),
                              Signed(BImmOf(b), 13), Signed(JImmOf(b), 21) } }

MemTexts(digits) == { d \o "(" \o r \o ")" : d \in DecTexts(digits), r \in RegTexts }

RECURSIVE WithoutLeadingZeros(_)
WithoutLeadingZeros(s) ==
  IF Len(s) > 1 /\ Head(s) = "0" THEN WithoutLeadingZeros(Tail(s)) ELSE s

\* the hexadecimal numbers a word with these 8 digits can show as an operand:
\* its 12-bit immediate, and its upper 20 bits with or without the low zeros
HexTexts(digits) ==
  { "0x" \o Str(WithoutLeadingZeros(SubSeq(digits, 1, 3))),
    "0x" \o Str(SubSeq(digits, 1, 5)),
    "0x" \o Str(SubSeq(digits, 1, 5)) \o "000" }

IsKind(op, kind, digits) ==
  CASE kind = "reg" -> op \in RegTexts
    [] kind = "flags" -> op \in FlagTexts
    [] kind = "dec" -> op \in DecTexts(digits)
    [] kind = "mem" -> op \in MemTexts(digits)
    [] kind = "hex" -> op \in HexTexts(digits)

HasShape(ops, shape, digits) ==
  /\ Len(ops) = Len(shape)
  /\ \A i \in 1..Len(ops) : IsKind(ops[i], shape[i], digits)

\* same length, and one kind fits both operands at each position
SameShape(opsA, digitsA, opsB, digitsB) ==
  /\ Len(opsA) = Len(opsB)
  /\ \A i \in 1..Len(opsA) :
       \E k \in Kinds : IsKind(opsA[i], k, digitsA) /\ IsKind(opsB[i], k, digitsB)

\* other successful decodes to compare a decode with
ReferenceWords ==
  { Word(0, 0, 0, 0, 0, 0), Word(1, 3, 2, 0, 1, 51), Word(0, 3, 2, 3, 1, 3),
    Word(0, 3, 2, 4, 1, 115), Word(0, 3, 2, 0, 1, 51), Word(0, 3, 2, 0, 1, 19),
    Word(0, 3, 2, 2, 1, 3), Word(0, 3, 2, 2, 1, 35), Word(0, 3, 2, 0, 1, 99),
    Word(0, 3, 2, 0, 1, 55), Word(0, 3, 2, 0, 1, 111), Word(0, 3, 2, 5, 1, 115) }
ReferenceDecodes ==
  { [digits |-> w, value |-> decode(w).value] : w \in ReferenceWords }

\* C13 as stated: any two successful decodes that return the same mnemonic
\* return operand lists of the same length with the same kind of operand at
\* each position.
C13_ShapeByMnemonic ==
  (ServiceCalled /\ result.kind = "ok") =>
    \A r \in ReferenceDecodes :
      r.value.mnemonic = result.value.mnemonic =>
        SameShape(result.value.operands, Normalized(hex.chars), r.value.operands, r.digits)

ShapeOfMnemonic(m) ==
  CASE m \in {"add", "sub", "sll", "slt", "sltu", "xor", "srl", "sra", "or", "and"} ->
         <<"reg", "reg", "reg">>
    [] m \in {"addi", "slti", "sltiu", "xori", "ori", "andi", "slli", "srli", "srai"} ->
         <<"reg", "reg", "dec">>
    [] m \in {"lb", "lh", "lw", "lbu", "lhu", "jalr", "sb", "sh", "sw"} -> <<"reg", "mem">>
    [] m \in {"beq", "bne", "blt", "bge", "bltu", "bgeu"} -> <<"reg", "reg", "dec">>
    [] m \in {"lui", "auipc"} -> <<"reg", "hex">>
    [] m = "jal" -> <<"reg", "dec">>
    [] m = "fence" -> <<"flags", "flags">>
    [] m \in {"fence.i", "ecall", "ebreak"} -> <<>>
    [] m \in {"csrrw", "csrrs", "csrrc"} -> <<"reg", "hex", "reg">>
    [] m \in {"csrrwi", "csrrsi", "csrrci"} -> <<"reg", "hex", "dec">>

\* C13, amended: for every mnemonic other than 'unknown' the operand list's
\* length and the kind of operand at each position are a function of the
\* mnemonic alone ('unknown' comes with no operand, with two or with three).
C13_ShapeByKnownMnemonic ==
  (ServiceCalled /\ result.kind = "ok" /\ result.value.mnemonic # "unknown") =>
    HasShape(result.value.operands, ShapeOfMnemonic(result.value.mnemonic),
             Normalized(hex.chars))

\* a csrrwi word was decoded to a register, a CSR address and a number
C13_Witness ==
  /\ ServiceCalled /\ result.kind = "ok"
  /\ result.value.mnemonic = "csrrwi"
  /\ Len(result.value.operands) = 3
  /\ result.value.operands[3] = ToString(ArgRs1)

(***************************************************************************)
(* C12                                                                     *)
(***************************************************************************)
\* C12: however the calls of decode on one service instance interleave,
\* each call returns exactly what decode returns for its argument when run
\* alone, and the format, opcode and mnemonic tables stay as constructed.
C12_CallsAreIndependent ==
  /\ service = ServiceFields
  /\ \A call \in 1..NumCalls :
       calls[call].pc = "done" => calls[call].result = decode(calls[call].hex)

\* the first call returned an add while the second, on a lui word, had
\* resolved its mnemonic and not yet returned
C12_Witness ==
  /\ calls[1].pc = "done" /\ calls[1].result.kind = "ok"
  /\ calls[1].result.value.mnemonic = "add"
  /\ calls[2].pc = "return" /\ frames[2].mnemonic = "lui"

(***************************************************************************)
(* C21                                                                     *)
(***************************************************************************)
\* C21: the second operand of a jal word is the signed decimal value of the
\* 21-bit two's-complement number with imm[20] = bit 31, imm[19:12] = bits
\* 19:12, imm[11] = bit 20, imm[10:1] = bits 30:21 and imm[0] = 0; it is
\* even and lies in [-1048576, 1048574].
C21_JumpImmediate ==
  (ServiceCalled /\ ArgValid /\ ArgOpcode = 111) =>
    /\ result.kind = "ok"
    /\ Len(result.value.operands) = 2
    /\ result.value.operands[2] = ToString(Signed(JImmOf(ArgWord), 21))
    /\ Signed(JImmOf(ArgWord), 21) % 2 = 0
    /\ Signed(JImmOf(ArgWord), 21) \in -1048576..1048574

\* a jal word with bits 31:12 all set gave the offset -2
C21_Witness ==
  /\ ServiceCalled /\ ArgValid /\ ArgOpcode = 111
  /\ ArchValue(ArgWord, 31, 12) = 1048575
  /\ result.kind = "ok" /\ result.value.operands[2] = "-2"

(***************************************************************************)
(* C22                                                                     *)
(***************************************************************************)
\* C22: for opcode 0010011 the operand list is [rd, rs1, imm]; with funct3
\* 001 or 101 imm is the unsigned decimal value of the low 5 bits of the
\* 12-bit immediate, otherwise the 12-bit immediate as a signed number in
\* [-2048, 2047]; F9C10093 gives -100 and FFC10093 gives -4.
C22_ArithmeticImmediate ==
  (ServiceCalled /\ ArgValid /\ ArgOpcode = 19) =>
    /\ result.kind = "ok"
    /\ Len(result.value.operands) = 3
    /\ NamesRegister(result.value.operands[1], ArgRd)
    /\ NamesRegister(result.value.operands[2], ArgRs1)
    /\ result.value.operands[3] =
         (IF ArgFunct3 \in {1, 5} THEN ToString(ArchValue(ArgWord, 24, 20))
          ELSE ToString(Signed(ArgImm12, 12)))
    /\ Signed(ArgImm12, 12) \in -2048..2047
    /\ Normalized(hex.chars) = <<"F", "9", "C", "1", "0", "0", "9", "3">> =>
         result.value.operands[3] = "-100"
    /\ Normalized(hex.chars) = <<"F", "F", "C", "1", "0", "0", "9", "3">> =>
         result.value.operands[3] = "-4"

\* a shift word with upper immediate bits 1111111 and low bits 00011 gave 3
C22_Witness ==
  /\ ServiceCalled /\ ArgValid /\ ArgOpcode = 19
  /\ ArgFunct3 = 5 /\ ArgFunct7 = 127 /\ ArgRs2 = 3
  /\ result.kind = "ok" /\ result.value.operands[3] = "3"

(***************************************************************************)
(* C23                                                                     *)
(***************************************************************************)
\* the text '<imm>(<register n>)', the register under either of its names
MemOperandTexts(imm, n) ==
  { ToString(imm) \o "(" \o r \o ")" : r \in {XName(n), AbiNameOf[n + 1]} }

C24_StoreOperands ==
  (ServiceCalled /\ ArgValid /\ ArgOpcode = 35) =>
    /\ result.kind = "ok"
    /\ result.value.operands =
         << XName(ArgRs2), ToString(Signed(ArgSImm, 12)) \o "(" \o XName(ArgRs1) \o ")" >>
    /\ Normalized(hex.chars) = <<"0", "6", "1", "1", "0", "2", "2", "3">> =>
         result.value.operands = <<"x1", "100(x2)">>

(***************************************************************************)
(* C25                                                                     *)
(***************************************************************************)
\* the letters of the set bits of a nibble in the order i, o, r, w
FlagLetters(nibble) ==
  (IF nibble \div 8 = 1 THEN "i" ELSE "") \o (IF (nibble \div 4) % 2 = 1 THEN "o" ELSE "") \o
  (IF (nibble \div 2) % 2 = 1 THEN "r" ELSE "") \o (IF nibble % 2 = 1 THEN "w" ELSE "")
FlagText(nibble) == IF nibble = 0 THEN "0" ELSE FlagLetters(nibble)

ArgImm12Hex == Str(WithoutLeadingZeros(SubSeq(Normalized(hex.chars), 1, 3)))

\* C26: the operand list of a CSR instruction is [rd, '0x' + the 12-bit
\* immediate as unsigned upper-case hex, third]; third is the rs1 register
\* for csrrw/csrrs/csrrc and the unsigned decimal value of the rs1 field for
\* csrrwi/csrrsi/csrrci.
C26_CsrOperands ==
  (ServiceCalled /\ ArgValid /\ ArgOpcode = 115 /\ ArgFunct3 \in {1, 2, 3, 5, 6, 7}) =>
    /\ result.kind = "ok"
    /\ Len(result.value.operands) = 3
    /\ NamesRegister(result.value.operands[1], ArgRd)
    /\ result.value.operands[2] = "0x" \o ArgImm12Hex
    /\ IF ArgFunct3 \in {1, 2, 3} THEN NamesRegister(result.value.operands[3], ArgRs1)
       ELSE result.value.operands[3] = ToString(ArgRs1)

\* a csrrsi word with CSR address 0xFFF and rs1 field 31 was decoded
C26_Witness ==
  /\ ServiceCalled /\ ArgValid /\ ArgOpcode = 115 /\ ArgFunct3 = 6
  /\ ArgImm12 = 4095 /\ ArgRs1 = 31
  /\ result.kind = "ok"
  /\ result.value.operands[2] = "0xFFF" /\ result.value.operands[3] = "31"

(***************************************************************************)
(* C27                                                                     *)
(***************************************************************************)
\* C27: every successful decode of a table opcode with a mnemonic other
\* than 'unknown' has a description other than '<mnemonic> instruction';
\* with mnemonic 'unknown' the description is 'unknown instruction'; the
\* description is never missing.
C27_DescriptionsCoverMnemonics ==
  (ServiceCalled /\ ArgValid /\ ArgOpcode \in DOMAIN FamilyOfOpcode) =>
    /\ result.kind = "ok"
    /\ result.value.description # ""
    /\ result.value.mnemonic # "unknown" =>
         result.value.description # result.value.mnemonic \o " instruction"
    /\ result.value.mnemonic = "unknown" =>
         result.value.description = "unknown instruction"

\* a fence.i word was described from the table
C27_Witness ==
  /\ ServiceCalled /\ ArgValid /\ ArgOpcode = 15 /\ ArgFunct3 = 1
  /\ result.kind = "ok"
  /\ result.value.mnemonic = "fence.i"
  /\ result.value.description = "Fence instruction cache"

(***************************************************************************)
(* C28                                                                     *)
(***************************************************************************)
Families == {"R", "I", "S", "B", "U", "J"}

SegmentsMatchFields(segments, fields) ==
  /\ Len(segments) = Len(fields)
  /\ \A i \in 1..Len(segments) :
       segments[i].field = fields[i].name /\ segments[i].text = fields[i].value

\* C28: for every format family the frontend's field-range table has the
\* decoder's field names in the decoder's order, and for a decoded binary
\* string the substring the frontend slices for each field is the value the
\* decoder returns for that field.
C28_BreakdownInLockStep ==
  /\ \A family \in Families :
       [i \in 1..Len(fieldRanges[family]) |-> fieldRanges[family][i][1]]
         = instructionFormatFields[family]
  /\ ~ui.decoded.isNull =>
       LET d == ui.decoded.value
       IN  /\ SegmentsMatchFields(renderColoredBinary(d.binary, d.instructionType), d.fields)
           /\ \A family \in Families :
                SegmentsMatchFields(renderColoredBinary(d.binary, family),
                                    extractFields(d.binary, instructionFormats[family]))

\* a jal word is on display, its 20-bit immediate as the first segment
C28_Witness ==
  /\ ~ui.decoded.isNull
  /\ ui.decoded.value.instructionType = "J"
  /\ Len(renderColoredBinary(ui.decoded.value.binary, "J")[1].text) = 20

(***************************************************************************)
(* C29                                                                     *)
(***************************************************************************)
RequestIssued == action.pc \in {"fetching", "responded"}

\* C29: every string the frontend sends as the hex parameter is 8 hex
\* digits once in upper case, so it passes the decoder's validation: the
\* answer to a frontend request is never the 'Invalid hex input' error nor
\* the controller's 'Hex parameter is required'.
C29_FrontendValidationSuffices ==
  /\ RequestIssued => IsCanonicalHex(Normalized(action.cleanHex))
  /\ RequestIssued => Len(action.cleanHex) = 8
  /\ (action.pc = "responded" /\ action.res.status = 400) =>
       action.res.message \notin {InvalidHexText, "Hex parameter is required"}

\* the text '0x00B5 0533' was typed and the backend answered the request 200
C29_Witness ==
  /\ action.pc = "responded"
  /\ Len(action.hex) = 11 /\ action.hex[2] = "x" /\ action.hex[7] = " "
  /\ action.res.status = 200

(***************************************************************************)
(* C30                                                                     *)
(***************************************************************************)
ActionStarted == action.pc = "validate"
ActionFinished == action.pc = "done"
ActionSucceeded == action.res.status \in 200..299

\* what holds of the React state at the start and at the end of an action
LifecycleStates ==
  /\ ActionStarted => ui.loading /\ ui.error.isNull
  /\ ActionFinished =>
       /\ ~ui.loading
       /\ ui.error.isNull # ui.decoded.isNull
       /\ ActionSucceeded => ui.error.isNull /\ ~ui.decoded.isNull
       /\ ~ActionSucceeded => ~ui.error.isNull /\ ui.decoded.isNull

\* C30: starting the decode action sets loading and clears error; whatever
\* the outcome, the action eventually finishes with loading false, and then
\* exactly one of error and decoded is non-null: decoded after a success,
\* error after a failure.
C30_RequestLifecycle ==
  /\ []LifecycleStates
  /\ (ActionStarted ~> ActionFinished)

\* an action ended on a gateway's answer with the error 'API error'
C30_Witness ==
  /\ ActionFinished
  /\ action.res.status = 502
  /\ ui.error = Some("API error") /\ ui.decoded.isNull /\ ~ui.loading

====
